---- MODULE Spec2Model ----
(***************************************************************************)
(* The ocean surfaces of the engine: the spectral ocean (OceanFFT), the    *)
(* Gerstner ocean (Ocean) and the book-style ocean (OceanCG).              *)
(*                                                                         *)
(* Every object is one record-valued variable holding the object's fields. *)
(* A method is an operator from the object's record (and the arguments) to *)
(* the record after the call; the action of the method applies it.         *)
(* Floats are fixed-point integers with FScale units per 1.0; a float that *)
(* the code may compute as NaN is a record [nan, v].                       *)
(***************************************************************************)
EXTENDS Integers, Sequences, FiniteSets, TLC

VARIABLES
    fft,      \* the OceanFFT object
    ocean,    \* the Ocean object
    cg,       \* the OceanCG object
    surface,  \* the surface the program drives: "OceanFFT", "Ocean", "OceanCG"
    grid,     \* the last grid built by the grid-building harness
    gl,       \* the OpenGL objects and the handles the surfaces hold to them
    wt,       \* a WeatherTransition and the CloudConfig its caller passes to Update
    call      \* the last call made: [obj, op, arguments, ret]

vars == <<fft, ocean, cg, surface, grid, gl, wt, call>>

-----------------------------------------------------------------------------
(* Bounds of the model.                                                    *)

\* OceanFFT grid resolutions offered to Initialize/SetOceanConfig: -1..MaxN
MaxN == 3
\* calls of GetGaussianRandom the generator may serve in one behaviour
MaxRngCalls == 6
\* OceanFFT::Update is offered while the accumulator stays within MaxTime
MaxTime == 2

-----------------------------------------------------------------------------
(* Fixed-point arithmetic.                                                 *)

FScale == 10^4

\* a * b / FScale without an intermediate above 2^31
MulFix(a, b) == (a \div FScale) * b + ((a % FScale) * b) \div FScale

DivFix(a, b) == (a * FScale) \div b

RECURSIVE SqrtSearch(_, _, _)
SqrtSearch(n, lo, hi) ==
    IF lo >= hi THEN lo
    ELSE LET mid == (lo + hi + 1) \div 2
         IN IF mid * mid <= n THEN SqrtSearch(n, mid, hi)
                              ELSE SqrtSearch(n, lo, mid - 1)

\* floor(sqrt(n)) for 0 <= n < 2^31
ISqrt(n) == SqrtSearch(n, 0, 46340)

\* a float of the mesh: a finite fixed-point value or NaN
Fin(v) == [nan |-> FALSE, v |-> v]
NaN == [nan |-> TRUE, v |-> 0]

\* the sequence f(0), f(1), ..., f(n-1) (empty for n <= 0)
SeqOf(n, f(_)) == [i \in 1..n |-> f(i - 1)]

RECURSIVE Flatten(_)
Flatten(ss) == IF ss = <<>> THEN <<>> ELSE Head(ss) \o Flatten(Tail(ss))

\* std::vector::resize(n): keeps the first n elements, value-initializes the rest
Resize(s, n, fill) == [i \in 1..n |-> IF i <= Len(s) THEN s[i] ELSE fill]

-----------------------------------------------------------------------------
(* Grid topology shared by the three surfaces: the index loops.            *)

\* the cell's first triangle pushed as (topLeft, topRight, bottomLeft)
CellIndices_FirstTriangleReversed(x, z, stride) ==
    LET topLeft == z * stride + x
        topRight == topLeft + 1
        bottomLeft == (z + 1) * stride + x
        bottomRight == bottomLeft + 1
    IN <<topLeft, topRight, bottomLeft, topRight, bottomLeft, bottomRight>>

\* The two triangles of cell (x, z) of a grid with `stride` vertices per row.
CellIndices(x, z, stride) ==
    LET topLeft == z * stride + x
        topRight == topLeft + 1
        bottomLeft == (z + 1) * stride + x
        bottomRight == bottomLeft + 1
    IN <<topLeft, bottomLeft, topRight, topRight, bottomLeft, bottomRight>>

\* the index loops pushing only the first triangle of each cell
GridIndices_FirstTriangleOnly(cells, stride) ==
    IF cells <= 0 THEN <<>>
    ELSE Flatten(SeqOf(cells * cells,
             LAMBDA c : SubSeq(CellIndices(c % cells, c \div cells, stride), 1, 3)))

\* the index loops running over [0, cells] in both directions
GridIndices_InclusiveLoops(cells, stride) ==
    IF cells <= 0 THEN <<>>
    ELSE Flatten(SeqOf((cells + 1) * (cells + 1),
             LAMBDA c : CellIndices(c % (cells + 1), c \div (cells + 1), stride)))

\* for z in [0, cells) for x in [0, cells): push the cell's six indices
GridIndices(cells, stride) ==
    IF cells <= 0 THEN <<>>
    ELSE Flatten(SeqOf(cells * cells,
             LAMBDA c : CellIndices(c % cells, c \div cells, stride)))

-----------------------------------------------------------------------------
(* OceanFFT                                                                *)

\* a & b on two's-complement ints: -1 is all ones, a % 2 the low bit and
\* a \div 2 the arithmetic shift
RECURSIVE BitAnd(_, _)
BitAnd(a, b) ==
    IF a = 0 \/ b = 0 THEN 0
    ELSE IF a = -1 THEN b
    ELSE IF b = -1 THEN a
    ELSE (a % 2) * (b % 2) + 2 * BitAnd(a \div 2, b \div 2)

\* the test without its sign guard: (value & (value - 1)) == 0
IsPowerOfTwo_NoSignCheck(value) == BitAnd(value, value - 1) = 0

\* value > 0 && (value & (value - 1)) == 0
IsPowerOfTwo(value) == value > 0 /\ BitAnd(value, value - 1) = 0

\* PI = 3.14159265359f, in millionths
PI_Micro == 3141593
TwoPiMicro == 2 * PI_Micro

\* OceanConfig: the fields the model follows
FFTConfigs ==
    [N : (-1)..MaxN, oceanSize : {1000}, timeScale : {1}, enableChoppiness : {TRUE}]
        \cup {[N |-> 2, oceanSize |-> 1000, timeScale |-> 2,
               enableChoppiness |-> FALSE]}

\* OceanConfig{}: the default member initializers, N = 512
FFTDefaultConfig ==
    [N |-> 512, oceanSize |-> 1000, timeScale |-> 1, enableChoppiness |-> TRUE]

\* WaveParameters; A in units of 1e-4, lambda in tenths
FFTDefaultWaveParameters ==
    [A |-> 1, windSpeed |-> <<32, 32>>, windDirection |-> <<10, 10>>, lambda |-> -10]

CreateCalmSea ==
    [A |-> 1, windSpeed |-> <<15, 15>>, windDirection |-> <<10, 0>>, lambda |-> -5]

FFTWaveParameterSets == {FFTDefaultWaveParameters, CreateCalmSea}

\* Complex(0.0f, 0.0f)
ComplexZero == [zero |-> TRUE]

\* the wavevector counted from the grid's corner instead of its centre
GetWaveVector_Uncentred(cfg, n, m) ==
    <<(TwoPiMicro * n) \div cfg.oceanSize, (TwoPiMicro * m) \div cfg.oceanSize>>

\* GetWaveVector(n, m) in millionths: 2 PI (n - N/2) / oceanSize
GetWaveVector(cfg, n, m) ==
    <<(TwoPiMicro * (n - cfg.N \div 2)) \div cfg.oceanSize,
      (TwoPiMicro * (m - cfg.N \div 2)) \div cfg.oceanSize>>

\* glm::length(k) < 0.000001f, k in millionths
IsZeroWaveVector(k) == ISqrt(k[1] * k[1] + k[2] * k[2]) < 1

\* zero[i]: cell i (1-based, m outer, n inner) of the N x N grid has |k| below
\* the threshold and is set to Complex(0, 0) without drawing a sample
ZeroCells(cfg) ==
    [i \in 1..(IF cfg.N <= 0 THEN 0 ELSE cfg.N * cfg.N) |->
        IsZeroWaveVector(GetWaveVector(cfg, (i - 1) % cfg.N, (i - 1) \div cfg.N))]

\* GenerateInitialSpectrum: resize to N*N, then one entry per cell; a sampled
\* cell holds the rng's next sample scaled by sqrt(Phillips(k)/2), kept as the
\* term [sample, k, params].
GenerateInitialSpectrum(s) ==
    LET cfg == s.config
        N == cfg.N
        zero == ZeroCells(cfg)
        resized == Resize(s.initialSpectrum, N * N, ComplexZero)
        rank(i) == Cardinality({j \in 1..(i - 1) : ~zero[j]})
        entry(i) ==
            IF zero[i] THEN ComplexZero
            ELSE [zero |-> FALSE,
                  sample |-> s.rngCalls + rank(i) + 1,
                  k |-> GetWaveVector(cfg, (i - 1) % N, (i - 1) \div N),
                  params |-> s.waveParams]
    IN [s EXCEPT
          !.initialSpectrum =
              IF N <= 0 THEN resized ELSE [i \in 1..(N * N) |-> entry(i)],
          !.rngCalls = s.rngCalls + Cardinality({j \in DOMAIN zero : ~zero[j]}),
          !.genRan = TRUE,
          !.genN = N]

\* the texture coordinate computed as x / N
FFTGridU_DividesByN(x, N) == IF N = 0 THEN NaN ELSE Fin((x * FScale) \div N)

\* PhillipsSpectrum without the early return for a short wavevector: at
\* |k| = 0 the quotient k / kLength is 0/0
PhillipsSpectrum_NoZeroGuard(k, params) ==
    [ret |-> IF IsZeroWaveVector(k) \/ params.windDirection = <<0, 0>>
             THEN NaN
             ELSE [nan |-> FALSE, term |-> [k |-> k, params |-> params]],
     dividedByK |-> TRUE]

\* PhillipsSpectrum(k): 0.0f when |k| < 1e-6, before anything is divided;
\* otherwise A exp(-1/(k^2 L^2)) / k^4 * dot(k/|k|, normalize(wind))^2 * damping,
\* kept as a term of k and the parameters, and NaN when the wind direction
\* (0, 0) is normalized. dividedByK tells whether k / kLength was computed.
PhillipsSpectrum(k, params) ==
    IF IsZeroWaveVector(k) THEN [ret |-> Fin(0), dividedByK |-> FALSE]
    ELSE [ret |-> IF params.windDirection = <<0, 0>>
                  THEN NaN
                  ELSE [nan |-> FALSE, term |-> [k |-> k, params |-> params]],
          dividedByK |-> TRUE]

\* the float x / (N - 1) and the float -halfSize + x * step, step = size / (N - 1)
FFTGridU(x, N) == IF N = 1 THEN NaN ELSE Fin((x * FScale) \div (N - 1))
FFTGridPos(x, cfg) ==
    IF cfg.N = 1 THEN NaN
    ELSE Fin(-((cfg.oceanSize * FScale) \div 2)
             + x * ((cfg.oceanSize * FScale) \div (cfg.N - 1)))

\* CreateGeometry: N*N vertices (x, y, z, u, v) row-major, (N-1)^2 cells
CreateGeometry(s) ==
    LET cfg == s.config
        N == cfg.N
        vertex(c) == <<FFTGridPos(c % N, cfg), Fin(0), FFTGridPos(c \div N, cfg),
                       FFTGridU(c % N, N), FFTGridU(c \div N, N)>>
    IN [s EXCEPT
          !.vertices = IF N <= 0 THEN <<>> ELSE SeqOf(N * N, vertex),
          !.indices = GridIndices(N - 1, N)]

\* Cleanup, as far as the CPU-side fields go
FFTCleanup(s) == [s EXCEPT !.isInitialized = FALSE]

\* Initialize(cfg): the object after the call and the value returned; shaderOk
\* says whether InitializeShaders finds and compiles the shader files
FFTInitialize(s, cfg, shaderOk) ==
    LET s1 == IF s.isInitialized THEN FFTCleanup(s) ELSE s
        s2 == [s1 EXCEPT !.config = cfg]
    IN IF ~IsPowerOfTwo(s2.config.N) THEN [obj |-> s2, ret |-> FALSE]
       ELSE LET s3 == CreateGeometry(s2)
            IN IF ~shaderOk THEN [obj |-> s3, ret |-> FALSE]
               ELSE [obj |-> [GenerateInitialSpectrum(s3) EXCEPT !.isInitialized = TRUE],
                     ret |-> TRUE]

\* SetWaveParameters(params)
FFTSetWaveParameters(s, params) ==
    LET s1 == [s EXCEPT !.waveParams = params]
    IN IF s1.isInitialized THEN GenerateInitialSpectrum(s1) ELSE s1

\* SetOceanConfig(cfg): config = cfg; then the test cfg.N != config.N
FFTSetOceanConfig(s, cfg, shaderOk) ==
    LET s1 == [s EXCEPT !.config = cfg]
    IN IF s1.isInitialized /\ cfg.N # s1.config.N
       THEN FFTInitialize(s1, cfg, shaderOk).obj
       ELSE s1

\* Update(deltaTime)
FFTUpdate(s, deltaTime) ==
    IF ~s.isInitialized THEN s
    ELSE [s EXCEPT !.time = s.time + deltaTime * s.config.timeScale]

\* the object after OceanFFT::OceanFFT()
FFTConstructed ==
    [config |-> FFTDefaultConfig,
     waveParams |-> FFTDefaultWaveParameters,
     time |-> 0,
     isInitialized |-> FALSE,
     initialSpectrum |-> <<>>,
     vertices |-> <<>>,
     indices |-> <<>>,
     rngCalls |-> 0,
     genRan |-> FALSE,   \* history: GenerateInitialSpectrum has run
     genN |-> 0]         \* history: config.N at its latest run

-----------------------------------------------------------------------------
(* Trigonometry in fixed point.                                            *)

PiFix == (PI_Micro + 50) \div 100
HalfPiFix == PiFix \div 2

\* sin of an angle in FScale units: reduction to [-pi/2, pi/2], then the
\* Taylor polynomial to the ninth power
SinFix(x) ==
    LET r0 == x % (2 * PiFix)
        r == IF r0 > PiFix THEN r0 - 2 * PiFix ELSE r0
        y == IF r > HalfPiFix THEN PiFix - r
             ELSE IF r < -HalfPiFix THEN -PiFix - r ELSE r
        y2 == MulFix(y, y)
        t4 == FScale - y2 \div 72
        t3 == FScale - MulFix(y2, t4) \div 42
        t2 == FScale - MulFix(y2, t3) \div 20
        t1 == FScale - MulFix(y2, t2) \div 6
    IN MulFix(y, t1)

CosFix(x) == SinFix(x + HalfPiFix)

\* sqrt of a fixed-point value below 2147.0
SqrtFix(v) == ISqrt(v * 100) * 10

\* glm::normalize of a 2D vector
Normalize2(v) ==
    LET len == ISqrt(v[1] * v[1] + v[2] * v[2])
    IN <<DivFix(v[1], len), DivFix(v[2], len)>>

Abs(x) == IF x < 0 THEN -x ELSE x

-----------------------------------------------------------------------------
(* OceanFFT sampling queries.  The accumulated time is in whole seconds,   *)
(* positions and time arguments are in FScale units.                       *)

\* octave i of SampleHeight: amp * sin(x * freq + t) * cos(z * freq + 0.7 t) with
\* freq = 0.01 * 2^i and amp = A / 2^i; A is in units of 1e-4, so the height is
\* in units of 1e-8
FFTOctave(A, i, x, z, t) ==
    (A * MulFix(SinFix((x * 2^i) \div 100 + t),
                CosFix((z * 2^i) \div 100 + (t * 7) \div 10))) \div 2^i

RECURSIVE FFTOctaves(_, _, _, _, _)
FFTOctaves(A, n, x, z, t) ==
    IF n = 0 THEN 0 ELSE FFTOctaves(A, n - 1, x, z, t) + FFTOctave(A, n - 1, x, z, t)

\* SampleHeight(x, z, currentTime); a negative currentTime means "now"
FFTSampleHeight(s, x, z, currentTime) ==
    IF ~s.isInitialized THEN 0
    ELSE LET t == IF currentTime < 0 THEN s.time * FScale ELSE currentTime
         IN FFTOctaves(s.waveParams.A, 8, x, z, t)

\* SampleNormal(x, z, currentTime): finite differences with epsilon = 0.1; the
\* result is the vector (h0 - hx, epsilon, h0 - hz) in the height's units,
\* the direction the final glm::normalize scales to length one
FFTSampleNormal(s, x, z, currentTime) ==
    IF ~s.isInitialized THEN <<0, (FScale \div 10) * FScale, 0>>
    ELSE LET epsilon == FScale \div 10
             h0 == FFTSampleHeight(s, x, z, currentTime)
             hx == FFTSampleHeight(s, x + epsilon, z, currentTime)
             hz == FFTSampleHeight(s, x, z + epsilon, currentTime)
         IN <<h0 - hx, epsilon * FScale, h0 - hz>>

\* SampleDisplacement(x, z, currentTime): lambda * 0.1 * cos(x * 0.01 + currentTime)
\* and lambda * 0.1 * sin(z * 0.01 + currentTime * 0.8), currentTime as passed
FFTSampleDisplacement(s, x, z, currentTime) ==
    IF ~s.isInitialized \/ ~s.config.enableChoppiness THEN <<0, 0>>
    ELSE <<(s.waveParams.lambda * CosFix(x \div 100 + currentTime)) \div 100,
           (s.waveParams.lambda * SinFix(z \div 100 + (currentTime * 8) \div 10)) \div 100>>

\* the object after a sampling query: the queries are const member functions
FFTAfterQuery(s, currentTime) == s

-----------------------------------------------------------------------------
(* Ocean (Gerstner)                                                        *)

\* Ocean grid resolutions offered to Initialize/SetConfig: 0..MaxRes
MaxRes == 1
\* Update is offered while the accumulator stays within MaxOceanTime seconds
MaxOceanTime == 1

\* the wave fields of OceanConfig{} (Ocean.hpp) and of three settings
OceanDefaultWaves ==
    [windDirection |-> <<10000, 5000>>, windSpeed |-> 25,
     waveAmplitude |-> 20000, waveFrequency |-> 200, numWaves |-> 6]

CreateCalmOcean ==
    [windDirection |-> <<10000, 5000>>, windSpeed |-> 5,
     waveAmplitude |-> 3000, waveFrequency |-> 500, numWaves |-> 3]

CreateStormyOcean ==
    [windDirection |-> <<10000, 5000>>, windSpeed |-> 50,
     waveAmplitude |-> 50000, waveFrequency |-> 100, numWaves |-> 10]

CreateRoughSea ==
    [windDirection |-> <<10000, 5000>>, windSpeed |-> 35,
     waveAmplitude |-> 30000, waveFrequency |-> 150, numWaves |-> 8]

CreateTropicalOcean ==
    [windDirection |-> <<10000, 5000>>, windSpeed |-> 15,
     waveAmplitude |-> 10000, waveFrequency |-> 300, numWaves |-> 5]

CreateArcticOcean ==
    [windDirection |-> <<10000, 5000>>, windSpeed |-> 25,
     waveAmplitude |-> 15000, waveFrequency |-> 250, numWaves |-> 6]

\* windDirection=(1,0), waveAmplitude=1.0, waveFrequency=0.02, numWaves=1
SingleWaveOcean ==
    [windDirection |-> <<10000, 0>>, windSpeed |-> 25,
     waveAmplitude |-> 10000, waveFrequency |-> 200, numWaves |-> 1]

\* the default with the wave count set to zero
NoWaveOcean == [OceanDefaultWaves EXCEPT !.numWaves = 0]

OceanWaveSettings ==
    {CreateCalmOcean, CreateStormyOcean, SingleWaveOcean, NoWaveOcean}

\* resolution and size (whole units) offered
OceanMeshSettings ==
    {[resolution |-> r, size |-> 10] : r \in 0..MaxRes}
        \cup {[resolution |-> 1, size |-> 0]}

OceanConfigOf(m, w) ==
    [resolution |-> m.resolution, size |-> m.size,
     windDirection |-> w.windDirection, windSpeed |-> w.windSpeed,
     waveAmplitude |-> w.waveAmplitude, waveFrequency |-> w.waveFrequency,
     numWaves |-> w.numWaves]

OceanConfigs == {OceanConfigOf(m, w) : m \in OceanMeshSettings, w \in OceanWaveSettings}

\* OceanConfig{}: resolution 256, size 1000
OceanDefaultConfig == OceanConfigOf([resolution |-> 256, size |-> 1000], OceanDefaultWaves)

\* GenerateWaveSet with steepness = 0.8 / (frequency * amplitude), the wave
\* count left out of the divisor
GenerateWaveSet_SteepnessWithoutCount(config) ==
    LET windDir == Normalize2(config.windDirection)
        wave(i) ==
            LET angle == i * 7854
                dir == <<CosFix(angle), SinFix(angle)>>
                frequency == (config.waveFrequency * (10 + 3 * i)) \div 10
                amplitude == (config.waveAmplitude * 2) \div (2 + i)
            IN [direction |-> <<(3 * dir[1] + 7 * windDir[1]) \div 10,
                                (3 * dir[2] + 7 * windDir[2]) \div 10>>,
                frequency |-> frequency,
                amplitude |-> amplitude,
                phase |-> i * 15708,
                steepness |-> DivFix(8000, MulFix(amplitude, frequency))]
    IN SeqOf(config.numWaves, wave)

\* GenerateWaveSet: wave i = 0 .. numWaves-1
GenerateWaveSet(config) ==
    LET windDir == Normalize2(config.windDirection)
        wave(i) ==
            LET angle == i * 7854
                dir == <<CosFix(angle), SinFix(angle)>>
                frequency == (config.waveFrequency * (10 + 3 * i)) \div 10
                amplitude == (config.waveAmplitude * 2) \div (2 + i)
            IN [direction |-> <<(3 * dir[1] + 7 * windDir[1]) \div 10,
                                (3 * dir[2] + 7 * windDir[2]) \div 10>>,
                frequency |-> frequency,
                amplitude |-> amplitude,
                phase |-> i * 15708,
                steepness |-> DivFix(8000, MulFix(amplitude, frequency) * config.numWaves)]
    IN SeqOf(config.numWaves, wave)

\* the wave's contribution taken with the cosine of theta
WaveHeight_Cosine(wave, x, z, t) ==
    LET c == SqrtFix(DivFix(98000, wave.frequency))
        d == Normalize2(wave.direction)
        dot == MulFix(x, d[1]) + MulFix(z, d[2])
        theta == MulFix(dot, wave.frequency) + MulFix(c, t) + wave.phase
    IN MulFix(wave.amplitude, CosFix(theta))

\* theta = dot(d, pos) * f + t * c + phase, c = sqrt(9.8 / f), and a * sin(theta)
WaveHeight(wave, x, z, t) ==
    LET c == SqrtFix(DivFix(98000, wave.frequency))
        d == Normalize2(wave.direction)
        dot == MulFix(x, d[1]) + MulFix(z, d[2])
        theta == MulFix(dot, wave.frequency) + MulFix(c, t) + wave.phase
    IN MulFix(wave.amplitude, SinFix(theta))

RECURSIVE SumHeights(_, _, _, _)
SumHeights(waves, x, z, t) ==
    IF waves = <<>> THEN 0
    ELSE WaveHeight(Head(waves), x, z, t) + SumHeights(Tail(waves), x, z, t)

\* the height accumulator started at waveAmplitude instead of 0
SampleWaveHeight_StartsAtAmplitude(s, x, z, currentTime) ==
    LET t == IF currentTime < 0 THEN s.time ELSE currentTime
    IN s.config.waveAmplitude + SumHeights(GenerateWaveSet(s.config), x, z, t)

\* SampleWaveHeight(x, z, currentTime); a negative currentTime means "now"
SampleWaveHeight(s, x, z, currentTime) ==
    LET t == IF currentTime < 0 THEN s.time ELSE currentTime
    IN SumHeights(GenerateWaveSet(s.config), x, z, t)

\* glm::normalize of a 3D vector
Normalize3(v) ==
    LET len == ISqrt(v[1] * v[1] + v[2] * v[2] + v[3] * v[3])
    IN <<DivFix(v[1], len), DivFix(v[2], len), DivFix(v[3], len)>>

\* SampleWaveNormal(x, z, currentTime): finite differences with epsilon = 0.1;
\* cross(tangentZ, tangentX) has the direction (h0 - hx, epsilon, h0 - hz)
SampleWaveNormal(s, x, z, currentTime) ==
    LET t == IF currentTime < 0 THEN s.time ELSE currentTime
        epsilon == FScale \div 10
        h0 == SampleWaveHeight(s, x, z, t)
        hx == SampleWaveHeight(s, x + epsilon, z, t)
        hz == SampleWaveHeight(s, x, z + epsilon, t)
    IN Normalize3(<<h0 - hx, epsilon, h0 - hz>>)

\* a query that stores its time argument in the accumulator
OceanAfterQuery_StoresTime(s, currentTime) ==
    IF currentTime < 0 THEN s ELSE [s EXCEPT !.time = currentTime]

\* the object after a sampling query: the queries are const member functions,
\* `currentTime = time` assigns the parameter
OceanAfterQuery(s, currentTime) == s

\* shaders/ocean_simple.vert: the vertical displacement of the vertex at (x, z)
SimpleShaderHeight(config, x, z, u_time) ==
    (MulFix(config.waveAmplitude, SinFix(x \div 10 + u_time))) \div 10
    + (MulFix(config.waveAmplitude, CosFix((z * 15) \div 100 + (u_time * 8) \div 10)) * 5)
          \div 100

\* shaders/ocean.vert: the waves 0 .. min(u_numWaves, 8) - 1 of the same set
GerstnerShaderHeight(config, x, z, u_time) ==
    LET waves == GenerateWaveSet(config)
        n == IF config.numWaves < 8 THEN config.numWaves ELSE 8
    IN SumHeights(SubSeq(waves, 1, n), x, z, u_time)

\* the vertex stage of the shader program the surface has loaded
VertexStageHeight(shader, config, x, z, u_time) ==
    IF shader = "ocean_simple" THEN SimpleShaderHeight(config, x, z, u_time)
    ELSE GerstnerShaderHeight(config, x, z, u_time)

\* the floats -halfSize + x * stepSize and x / resolution of a grid of
\* `resolution` cells over `size` units (size in whole units)
GridPos(x, resolution, size) ==
    IF resolution = 0 THEN NaN
    ELSE Fin(-((size * FScale) \div 2) + x * ((size * FScale) \div resolution))

GridUV(x, resolution) ==
    IF resolution = 0 THEN NaN ELSE Fin((x * FScale) \div resolution)

\* GenerateMesh without the clear() of the three vertex vectors
OceanGenerateMesh_NoClear(s) ==
    LET R == s.config.resolution
        n == IF R < 0 THEN 0 ELSE (R + 1) * (R + 1)
    IN [s EXCEPT
          !.vertices = @ \o SeqOf(n, LAMBDA c :
              <<GridPos(c % (R + 1), R, s.config.size), Fin(0),
                GridPos(c \div (R + 1), R, s.config.size)>>),
          !.normals = @ \o SeqOf(n, LAMBDA c : <<Fin(0), Fin(FScale), Fin(0)>>),
          !.texCoords = @ \o SeqOf(n, LAMBDA c :
              <<GridUV(c % (R + 1), R), GridUV(c \div (R + 1), R)>>),
          !.indices = GridIndices(R, R + 1)]

\* GenerateMesh and GenerateIndices
OceanGenerateMesh(s) ==
    LET R == s.config.resolution
        n == IF R < 0 THEN 0 ELSE (R + 1) * (R + 1)
    IN [s EXCEPT
          !.vertices = SeqOf(n, LAMBDA c :
              <<GridPos(c % (R + 1), R, s.config.size), Fin(0),
                GridPos(c \div (R + 1), R, s.config.size)>>),
          !.normals = SeqOf(n, LAMBDA c : <<Fin(0), Fin(FScale), Fin(0)>>),
          !.texCoords = SeqOf(n, LAMBDA c :
              <<GridUV(c % (R + 1), R), GridUV(c \div (R + 1), R)>>),
          !.indices = GridIndices(R, R + 1)]

\* SetupVertexData: the element buffer receives indices.size() indices
OceanSetupVertexData(s) == [s EXCEPT !.eboCount = Len(s.indices)]

OceanCleanup(s) == [s EXCEPT !.isInitialized = FALSE, !.shader = "none"]

\* Initialize(cfg): the object after the call and the value returned; shaderOk
\* says whether InitFromFiles loads shaders/ocean_simple.vert and .frag
OceanInitialize(s, cfg, shaderOk) ==
    LET s1 == IF s.isInitialized THEN OceanCleanup(s) ELSE s
        s2 == [s1 EXCEPT !.config = cfg, !.shader = "ocean_simple"]
    IN IF ~shaderOk THEN [obj |-> s2, ret |-> FALSE]
       ELSE [obj |-> [OceanSetupVertexData(OceanGenerateMesh(s2))
                          EXCEPT !.isInitialized = TRUE],
             ret |-> TRUE]

\* SetConfig that clears the mesh vectors and does not refill them
OceanSetConfig_ClearsMesh(s, cfg) ==
    [s EXCEPT !.config = cfg, !.vertices = <<>>, !.normals = <<>>,
              !.texCoords = <<>>, !.indices = <<>>]

\* SetConfig(cfg): config = cfg; GenerateMesh and UpdateMeshData when initialized
OceanSetConfig(s, cfg) ==
    LET s1 == [s EXCEPT !.config = cfg]
    IN IF s1.isInitialized THEN OceanGenerateMesh(s1) ELSE s1

\* Update without the isInitialized guard
OceanUpdate_Unguarded(s, deltaTime) == [s EXCEPT !.time = s.time + deltaTime]

\* Update(deltaTime): if (!isInitialized) return; time += deltaTime
OceanUpdate(s, deltaTime) ==
    IF ~s.isInitialized THEN s ELSE [s EXCEPT !.time = s.time + deltaTime]

\* the object after Ocean::Ocean()
OceanConstructed ==
    [config |-> OceanDefaultConfig,
     time |-> 0,
     isInitialized |-> FALSE,
     vertices |-> <<>>,
     normals |-> <<>>,
     texCoords |-> <<>>,
     indices |-> <<>>,
     shader |-> "none",
     eboCount |-> 0]

-----------------------------------------------------------------------------
(* OceanCG                                                                 *)

\* WaveParameters{} and OceanCGFactory::CreateCalmWaves (fixed point)
CGDefaultWaves == [height |-> 5000, length |-> 80000, speed |-> 20000, time |-> 0]
CreateCalmWaves == [height |-> 2000, length |-> 120000, speed |-> 3000, time |-> 0]
CGWaveParameterSets == {CGDefaultWaves, CreateCalmWaves}

\* CreateOceanGrid: vertices of 8 floats (position, normal, texcoord)
CreateOceanGrid(s) ==
    LET R == s.gridResolution
        n == IF R < 0 THEN 0 ELSE (R + 1) * (R + 1)
    IN [s EXCEPT
          !.vertices = SeqOf(n, LAMBDA c :
              <<GridPos(c % (R + 1), R, s.gridSize), Fin(0),
                GridPos(c \div (R + 1), R, s.gridSize),
                Fin(0), Fin(FScale), Fin(0),
                GridUV(c % (R + 1), R), GridUV(c \div (R + 1), R)>>),
          !.indices = GridIndices(R, R + 1)]

CGCleanup(s) == [s EXCEPT !.isInitialized = FALSE]

\* Initialize(resolution, size): the object after the call and the value returned
CGInitialize(s, resolution, size, shaderOk) ==
    LET s1 == IF s.isInitialized THEN CGCleanup(s) ELSE s
        s2 == [s1 EXCEPT !.gridResolution = resolution, !.gridSize = size]
    IN IF ~shaderOk THEN [obj |-> s2, ret |-> FALSE]
       ELSE [obj |-> [CreateOceanGrid(s2) EXCEPT !.isInitialized = TRUE],
             ret |-> TRUE]

\* waves.time += deltaTime * waves.speed
CGUpdate(s, deltaTime) ==
    IF ~s.isInitialized THEN s
    ELSE [s EXCEPT !.waves.time = s.waves.time + MulFix(s.waves.speed, deltaTime)]

CGSetWaveParameters(s, params) == [s EXCEPT !.waves = params]

\* the object after OceanCG::OceanCG()
CGConstructed ==
    [gridResolution |-> 50,
     gridSize |-> 50,
     waves |-> CGDefaultWaves,
     isInitialized |-> FALSE,
     vertices |-> <<>>,
     indices |-> <<>>]

-----------------------------------------------------------------------------
(* OpenGL objects.  A name is a positive integer handed out by glGen*;     *)
(* `live` are the names of existing objects, `dead` the names deleted, and *)
(* `twice` the names passed to glDelete* when no such object existed any   *)
(* more.  `fft` and `ocean` are the handle members of the two surfaces, 0  *)
(* for none.  The table is followed by the actions of SpecGL.              *)

\* names handed out
MaxGLNames == 20

\* handle members in the order Initialize fills them (phaseTexture and
\* skyboxTexture are never generated)
FFTGeometryHandles == <<"VAO", "VBO", "EBO">>
FFTFramebufferHandles == <<"framebuffer">>
OceanGeometryHandles == <<"VAO", "VBO", "EBO">>
OceanTextureHandles == <<"dudvTexture", "normalTexture">>

\* CreateTextures: displacementTexture only with enableChoppiness; enableFoam
\* is true in every configuration offered
FFTTextureHandles(cfg) ==
    <<"heightmapTexture">>
        \o (IF cfg.enableChoppiness THEN <<"displacementTexture">> ELSE <<>>)
        \o <<"normalTexture", "foamTexture", "spectrumTexture">>

\* handle members in the order OceanFFT::Cleanup visits them
FFTCleanupOrder ==
    <<"heightmapTexture", "displacementTexture", "normalTexture", "foamTexture",
      "spectrumTexture", "phaseTexture", "framebuffer", "VAO", "VBO", "EBO">>

\* handle members in the order Ocean::Cleanup visits them
OceanCleanupOrder ==
    <<"VAO", "VBO", "EBO", "dudvTexture", "normalTexture", "skyboxTexture">>

\* glGen*(1, &member): a fresh name is stored in the member, whatever it held
GLGen(g, obj, member) ==
    [g EXCEPT !.next = @ + 1, !.live = @ \cup {g.next}, ![obj][member] = g.next]

RECURSIVE GLGenAll(_, _, _)
GLGenAll(g, obj, members) ==
    IF members = <<>> THEN g
    ELSE GLGenAll(GLGen(g, obj, Head(members)), obj, Tail(members))

\* glDelete*(1, &name)
GLDelete(g, name) ==
    IF name \in g.live
        THEN [g EXCEPT !.live = @ \ {name}, !.dead = @ \cup {name}]
        ELSE [g EXCEPT !.twice = @ \cup {name}]

\* OceanFFT::Cleanup: `if (h != 0) glDelete*(1, &h);` for each member; the
\* members keep their values
RECURSIVE GLFFTCleanupFrom(_, _)
GLFFTCleanupFrom(g, members) ==
    IF members = <<>> THEN g
    ELSE LET name == g.fft[Head(members)]
         IN GLFFTCleanupFrom(IF name # 0 THEN GLDelete(g, name) ELSE g,
                             Tail(members))

GLFFTCleanup(g) == GLFFTCleanupFrom(g, FFTCleanupOrder)

\* Ocean::Cleanup: `if (h != 0) { glDelete*(1, &h); h = 0; }` for each member
RECURSIVE GLOceanCleanupFrom(_, _)
GLOceanCleanupFrom(g, members) ==
    IF members = <<>> THEN g
    ELSE LET name == g.ocean[Head(members)]
         IN GLOceanCleanupFrom(
                IF name # 0
                    THEN [GLDelete(g, name) EXCEPT !.ocean[Head(members)] = 0]
                    ELSE g,
                Tail(members))

GLOceanCleanup(g) == GLOceanCleanupFrom(g, OceanCleanupOrder)

\* the OpenGL side of OceanFFT::Initialize(cfg) on the object s
GLFFTInitialize(g, s, cfg, shaderOk) ==
    LET g1 == IF s.isInitialized THEN GLFFTCleanup(g) ELSE g
    IN IF ~IsPowerOfTwo(cfg.N) THEN g1
       ELSE GLGenAll(GLGenAll(GLGenAll(g1, "fft", FFTGeometryHandles),
                              "fft", FFTTextureHandles(cfg)),
                     "fft", FFTFramebufferHandles)

\* the OpenGL side of Ocean::Initialize(cfg) on the object s
GLOceanInitialize(g, s, cfg, shaderOk) ==
    LET g1 == IF s.isInitialized THEN GLOceanCleanup(g) ELSE g
    IN IF ~shaderOk THEN g1
       ELSE GLGenAll(GLGenAll(g1, "ocean", OceanGeometryHandles),
                     "ocean", OceanTextureHandles)

\* no OpenGL object, every handle member 0, both surfaces constructed
GLConstructed ==
    [next |-> 1, live |-> {}, dead |-> {}, twice |-> {},
     fft |-> [m \in {FFTCleanupOrder[i] : i \in 1..Len(FFTCleanupOrder)} |-> 0],
     ocean |-> [m \in {OceanCleanupOrder[i] : i \in 1..Len(OceanCleanupOrder)} |-> 0],
     destroyed |-> FALSE]

-----------------------------------------------------------------------------
(* WeatherTransition.  Of CloudConfig the model keeps two of the seven     *)
(* interpolated members (cloudCoverage, cloudDensity; the other five are   *)
(* assigned by the same glm::mix line) and one member Update does not      *)
(* interpolate (numSteps).  Times are in FScale units.                     *)

\* CloudConfig{}, CloudFactory::CreateClearSky, CloudFactory::CreatePartlyCloudy
CloudDefaultConfig == [cloudCoverage |-> 4500, cloudDensity |-> 10000, numSteps |-> 64]
CreateClearSky == [cloudCoverage |-> 1000, cloudDensity |-> 3000, numSteps |-> 32]
CreatePartlyCloudy == [cloudCoverage |-> 4000, cloudDensity |-> 6000, numSteps |-> 64]

CloudConfigs == {CloudDefaultConfig, CreateClearSky, CreatePartlyCloudy}

\* glm::clamp(v, 0, 1)
Clamp01(v) == IF v < 0 THEN 0 ELSE IF v > FScale THEN FScale ELSE v

\* glm::mix(a, b, t) = a * (1 - t) + b * t
Mix(a, b, t) == MulFix(a, FScale - t) + MulFix(b, t)

\* StartTransition(from, to, transitionDuration)
WTStartTransition(w, from, to, transitionDuration) ==
    [w EXCEPT !.startConfig = from, !.targetConfig = to,
              !.duration = transitionDuration, !.currentTime = 0, !.isActive = TRUE]

\* the members Update interpolates, written into outConfig
WTInterpolate(w, outConfig, smoothT) ==
    [outConfig EXCEPT
        !.cloudCoverage = Mix(w.startConfig.cloudCoverage,
                              w.targetConfig.cloudCoverage, smoothT),
        !.cloudDensity = Mix(w.startConfig.cloudDensity,
                             w.targetConfig.cloudDensity, smoothT)]

\* Update completing only once currentTime exceeds duration
WTUpdate_StrictCompletion(w, outConfig, deltaTime) ==
    IF ~w.isActive THEN [obj |-> w, out |-> outConfig, ret |-> FALSE]
    ELSE LET currentTime == w.currentTime + deltaTime
             t == Clamp01(DivFix(currentTime, w.duration))
             smoothT == MulFix(MulFix(t, t), 3 * FScale - 2 * t)
             w1 == [w EXCEPT !.currentTime = currentTime]
         IN IF currentTime > w.duration
               THEN [obj |-> [w1 EXCEPT !.isActive = FALSE],
                     out |-> w.targetConfig, ret |-> FALSE]
               ELSE [obj |-> w1, out |-> WTInterpolate(w, outConfig, smoothT),
                     ret |-> TRUE]

\* Update(deltaTime, outConfig): the object and outConfig after the call and
\* the value returned
WTUpdate(w, outConfig, deltaTime) ==
    IF ~w.isActive THEN [obj |-> w, out |-> outConfig, ret |-> FALSE]
    ELSE LET currentTime == w.currentTime + deltaTime
             t == Clamp01(DivFix(currentTime, w.duration))
             smoothT == MulFix(MulFix(t, t), 3 * FScale - 2 * t)
             w1 == [w EXCEPT !.currentTime = currentTime]
         IN IF currentTime >= w.duration
               THEN [obj |-> [w1 EXCEPT !.isActive = FALSE],
                     out |-> w.targetConfig, ret |-> FALSE]
               ELSE [obj |-> w1, out |-> WTInterpolate(w, outConfig, smoothT),
                     ret |-> TRUE]

\* the object after WeatherTransition::WeatherTransition() and a
\* default-constructed CloudConfig at the caller
WTConstructed ==
    [obj |-> [startConfig |-> CloudDefaultConfig, targetConfig |-> CloudDefaultConfig,
              duration |-> 0, currentTime |-> 0, isActive |-> FALSE],
     out |-> CloudDefaultConfig]

-----------------------------------------------------------------------------
NoGrid == [builder |-> "none"]
NoCall == [obj |-> "none", op |-> "none"]

Constructed ==
    /\ fft = FFTConstructed
    /\ ocean = OceanConstructed
    /\ cg = CGConstructed
    /\ grid = NoGrid
    /\ gl = GLConstructed
    /\ wt = WTConstructed
    /\ call = NoCall

-----------------------------------------------------------------------------
(* The program driving an OceanFFT.                                        *)

InitFFT == Constructed /\ surface = "OceanFFT"

OceanFFT_Initialize ==
    \E cfg \in FFTConfigs, shaderOk \in BOOLEAN :
        LET r == FFTInitialize(fft, cfg, shaderOk)
        IN /\ surface = "OceanFFT"
           /\ r.obj.rngCalls <= MaxRngCalls
           /\ fft' = r.obj
           /\ call' = [obj |-> "OceanFFT", op |-> "Initialize", cfg |-> cfg,
                       shaderOk |-> shaderOk, ret |-> r.ret]
           /\ UNCHANGED <<wt, gl, ocean, cg, surface, grid>>

OceanFFT_Cleanup ==
    /\ surface = "OceanFFT"
    /\ fft' = FFTCleanup(fft)
    /\ call' = [obj |-> "OceanFFT", op |-> "Cleanup"]
    /\ UNCHANGED <<wt, gl, ocean, cg, surface, grid>>

OceanFFT_SetWaveParameters ==
    \E params \in FFTWaveParameterSets :
        LET s == FFTSetWaveParameters(fft, params)
        IN /\ surface = "OceanFFT"
           /\ s.rngCalls <= MaxRngCalls
           /\ fft' = s
           /\ call' = [obj |-> "OceanFFT", op |-> "SetWaveParameters", params |-> params]
           /\ UNCHANGED <<wt, gl, ocean, cg, surface, grid>>

OceanFFT_SetOceanConfig ==
    \E cfg \in FFTConfigs, shaderOk \in BOOLEAN :
        LET s == FFTSetOceanConfig(fft, cfg, shaderOk)
        IN /\ surface = "OceanFFT"
           /\ s.rngCalls <= MaxRngCalls
           /\ fft' = s
           /\ call' = [obj |-> "OceanFFT", op |-> "SetOceanConfig", cfg |-> cfg]
           /\ UNCHANGED <<wt, gl, ocean, cg, surface, grid>>

OceanFFT_Update ==
    \E deltaTime \in {1} :
        LET s == FFTUpdate(fft, deltaTime)
        IN /\ surface = "OceanFFT"
           /\ s.time <= MaxTime
           /\ fft' = s
           /\ call' = [obj |-> "OceanFFT", op |-> "Update", deltaTime |-> deltaTime]
           /\ UNCHANGED <<wt, gl, ocean, cg, surface, grid>>

NextFFT ==
    \/ OceanFFT_Initialize
    \/ OceanFFT_Cleanup
    \/ OceanFFT_SetWaveParameters
    \/ OceanFFT_SetOceanConfig
    \/ OceanFFT_Update

SpecFFT == InitFFT /\ [][NextFFT]_vars

-----------------------------------------------------------------------------
(* The program driving a Gerstner surface: an Ocean or an OceanCG.         *)

InitGerstner == Constructed /\ surface \in {"Ocean", "OceanCG"}

\* sample positions (x, z) and time arguments; -1.0 is the default argument
SamplePoints == {<<0, 0>>, <<10 * FScale, 5 * FScale>>}
SampleTimes == {-FScale, 0, FScale}

Ocean_Initialize ==
    \E cfg \in OceanConfigs, shaderOk \in BOOLEAN :
        /\ surface = "Ocean"
        /\ ocean' = OceanInitialize(ocean, cfg, shaderOk).obj
        /\ call' = [obj |-> "Ocean", op |-> "Initialize", cfg |-> cfg,
                    shaderOk |-> shaderOk,
                    ret |-> OceanInitialize(ocean, cfg, shaderOk).ret]
        /\ UNCHANGED <<wt, gl, fft, cg, surface, grid>>

Ocean_Cleanup ==
    /\ surface = "Ocean"
    /\ ocean' = OceanCleanup(ocean)
    /\ call' = [obj |-> "Ocean", op |-> "Cleanup"]
    /\ UNCHANGED <<wt, gl, fft, cg, surface, grid>>

Ocean_Update ==
    \E deltaTime \in {FScale} :
        LET s == OceanUpdate(ocean, deltaTime)
        IN /\ surface = "Ocean"
           /\ s.time <= MaxOceanTime * FScale
           /\ ocean' = s
           /\ call' = [obj |-> "Ocean", op |-> "Update", deltaTime |-> deltaTime]
           /\ UNCHANGED <<wt, gl, fft, cg, surface, grid>>

Ocean_SetConfig ==
    \E cfg \in OceanConfigs :
        /\ surface = "Ocean"
        /\ ocean' = OceanSetConfig(ocean, cfg)
        /\ call' = [obj |-> "Ocean", op |-> "SetConfig", cfg |-> cfg,
                    \* history: cfg keeps the stored resolution and size and
                    \* changes a wind/wave field
                    wavesOnly |-> /\ cfg.resolution = ocean.config.resolution
                                  /\ cfg.size = ocean.config.size
                                  /\ cfg # ocean.config]
        /\ UNCHANGED <<wt, gl, fft, cg, surface, grid>>

Ocean_SampleWaveHeight ==
    \E p \in SamplePoints, currentTime \in SampleTimes :
        /\ surface = "Ocean"
        /\ ocean' = OceanAfterQuery(ocean, currentTime)
        /\ call' = [obj |-> "Ocean", op |-> "SampleWaveHeight",
                    x |-> p[1], z |-> p[2], currentTime |-> currentTime,
                    ret |-> SampleWaveHeight(ocean, p[1], p[2], currentTime)]
        /\ UNCHANGED <<wt, gl, fft, cg, surface, grid>>

OceanCG_Initialize ==
    \E resolution \in 0..MaxRes, size \in {10}, shaderOk \in BOOLEAN :
        /\ surface = "OceanCG"
        /\ cg' = CGInitialize(cg, resolution, size, shaderOk).obj
        /\ call' = [obj |-> "OceanCG", op |-> "Initialize",
                    cfg |-> [resolution |-> resolution, size |-> size],
                    shaderOk |-> shaderOk,
                    ret |-> CGInitialize(cg, resolution, size, shaderOk).ret]
        /\ UNCHANGED <<wt, gl, fft, ocean, surface, grid>>

OceanCG_Cleanup ==
    /\ surface = "OceanCG"
    /\ cg' = CGCleanup(cg)
    /\ call' = [obj |-> "OceanCG", op |-> "Cleanup"]
    /\ UNCHANGED <<wt, gl, fft, ocean, surface, grid>>

OceanCG_Update ==
    \E deltaTime \in {FScale} :
        LET s == CGUpdate(cg, deltaTime)
        IN /\ surface = "OceanCG"
           /\ s.waves.time <= MaxOceanTime * FScale
           /\ cg' = s
           /\ call' = [obj |-> "OceanCG", op |-> "Update", deltaTime |-> deltaTime]
           /\ UNCHANGED <<wt, gl, fft, ocean, surface, grid>>

OceanCG_SetWaveParameters ==
    \E params \in CGWaveParameterSets :
        /\ surface = "OceanCG"
        /\ cg' = CGSetWaveParameters(cg, params)
        /\ call' = [obj |-> "OceanCG", op |-> "SetWaveParameters", params |-> params]
        /\ UNCHANGED <<wt, gl, fft, ocean, surface, grid>>

NextGerstner ==
    \/ Ocean_Initialize
    \/ Ocean_Cleanup
    \/ Ocean_Update
    \/ Ocean_SetConfig
    \/ Ocean_SampleWaveHeight
    \/ OceanCG_Initialize
    \/ OceanCG_Cleanup
    \/ OceanCG_Update
    \/ OceanCG_SetWaveParameters

SpecGerstner == InitGerstner /\ [][NextGerstner]_vars

-----------------------------------------------------------------------------
(* The program driving a surface and probing it with the sampling queries. *)

InitQueries == Constructed /\ surface \in {"OceanFFT", "Ocean"}

\* time arguments of the probes: the default -1.0 and 1.0
QueryTimes == {-FScale, FScale}

OceanFFT_SampleHeight ==
    \E p \in SamplePoints, currentTime \in QueryTimes :
        /\ surface = "OceanFFT"
        /\ fft' = FFTAfterQuery(fft, currentTime)
        /\ call' = [obj |-> "OceanFFT", op |-> "SampleHeight",
                    x |-> p[1], z |-> p[2], currentTime |-> currentTime,
                    ret |-> FFTSampleHeight(fft, p[1], p[2], currentTime)]
        /\ UNCHANGED <<wt, gl, ocean, cg, surface, grid>>

OceanFFT_SampleNormal ==
    \E p \in SamplePoints, currentTime \in QueryTimes :
        /\ surface = "OceanFFT"
        /\ fft' = FFTAfterQuery(fft, currentTime)
        /\ call' = [obj |-> "OceanFFT", op |-> "SampleNormal",
                    x |-> p[1], z |-> p[2], currentTime |-> currentTime,
                    ret |-> FFTSampleNormal(fft, p[1], p[2], currentTime)]
        /\ UNCHANGED <<wt, gl, ocean, cg, surface, grid>>

OceanFFT_SampleDisplacement ==
    \E p \in SamplePoints, currentTime \in QueryTimes :
        /\ surface = "OceanFFT"
        /\ fft' = FFTAfterQuery(fft, currentTime)
        /\ call' = [obj |-> "OceanFFT", op |-> "SampleDisplacement",
                    x |-> p[1], z |-> p[2], currentTime |-> currentTime,
                    ret |-> FFTSampleDisplacement(fft, p[1], p[2], currentTime)]
        /\ UNCHANGED <<wt, gl, ocean, cg, surface, grid>>

Ocean_SampleWaveNormal ==
    \E p \in SamplePoints, currentTime \in QueryTimes :
        /\ surface = "Ocean"
        /\ ocean' = OceanAfterQuery(ocean, currentTime)
        /\ call' = [obj |-> "Ocean", op |-> "SampleWaveNormal",
                    x |-> p[1], z |-> p[2], currentTime |-> currentTime,
                    ret |-> SampleWaveNormal(ocean, p[1], p[2], currentTime)]
        /\ UNCHANGED <<wt, gl, fft, cg, surface, grid>>

NextQueries ==
    \/ OceanFFT_Initialize
    \/ OceanFFT_Update
    \/ OceanFFT_SampleHeight
    \/ OceanFFT_SampleNormal
    \/ OceanFFT_SampleDisplacement
    \/ Ocean_Initialize
    \/ Ocean_Update
    \/ Ocean_SampleWaveHeight
    \/ Ocean_SampleWaveNormal

SpecQueries == InitQueries /\ [][NextQueries]_vars

-----------------------------------------------------------------------------
(* The program driving any one of the three surfaces.                      *)

Init == Constructed /\ surface \in {"OceanFFT", "Ocean", "OceanCG"}

Next == NextFFT \/ NextGerstner

Spec == Init /\ [][Next]_vars

-----------------------------------------------------------------------------
(* The grid builders applied to (resolution, size) inputs.                 *)

\* resolutions -2..MaxGridR and sizes 1..MaxGridSize are built
MaxGridR == 4
MaxGridSize == 8

InitGrid == Constructed /\ surface = "none"

\* Ocean::GenerateMesh / GenerateIndices on an Ocean configured with (R, size)
BuildOceanGrid ==
    \E R \in (-2)..MaxGridR, size \in 1..MaxGridSize :
        LET s == OceanGenerateMesh(
                     [OceanConstructed EXCEPT !.config.resolution = R,
                                              !.config.size = size])
        IN /\ grid' = [builder |-> "Ocean", R |-> R, size |-> size,
                       nVertices |-> Len(s.vertices),
                       positions |-> s.vertices,
                       uvs |-> s.texCoords,
                       indices |-> s.indices]
           /\ UNCHANGED <<wt, gl, fft, ocean, cg, surface, call>>

\* OceanCG::CreateOceanGrid on an OceanCG with gridResolution R, gridSize size
BuildOceanCGGrid ==
    \E R \in (-2)..MaxGridR, size \in 1..MaxGridSize :
        LET s == CreateOceanGrid(
                     [CGConstructed EXCEPT !.gridResolution = R, !.gridSize = size])
        IN /\ grid' = [builder |-> "OceanCG", R |-> R, size |-> size,
                       nVertices |-> Len(s.vertices),
                       positions |-> [i \in 1..Len(s.vertices) |->
                                         SubSeq(s.vertices[i], 1, 3)],
                       uvs |-> [i \in 1..Len(s.vertices) |->
                                         SubSeq(s.vertices[i], 7, 8)],
                       indices |-> s.indices]
           /\ UNCHANGED <<wt, gl, fft, ocean, cg, surface, call>>

\* OceanFFT::CreateGeometry on an OceanFFT configured with N and oceanSize size
BuildOceanFFTGrid ==
    \E N \in (-2)..(MaxGridR + 1), size \in 1..MaxGridSize :
        LET s == CreateGeometry(
                     [FFTConstructed EXCEPT !.config.N = N, !.config.oceanSize = size])
        IN /\ grid' = [builder |-> "OceanFFT", R |-> N, size |-> size,
                       nVertices |-> Len(s.vertices),
                       positions |-> [i \in 1..Len(s.vertices) |->
                                         SubSeq(s.vertices[i], 1, 3)],
                       uvs |-> [i \in 1..Len(s.vertices) |->
                                         SubSeq(s.vertices[i], 4, 5)],
                       indices |-> s.indices]
           /\ UNCHANGED <<wt, gl, fft, ocean, cg, surface, call>>

NextGrid == BuildOceanGrid \/ BuildOceanCGGrid \/ BuildOceanFFTGrid

SpecGrid == InitGrid /\ [][NextGrid]_vars

-----------------------------------------------------------------------------
(* The life of one surface object and of the OpenGL objects it creates:    *)
(* Initialize and Cleanup in any order, then the destructor.               *)

InitGL == Constructed /\ surface \in {"OceanFFT", "Ocean"}

GL_OceanFFT_Initialize ==
    \E cfg \in FFTConfigs, shaderOk \in BOOLEAN :
        LET r == FFTInitialize(fft, cfg, shaderOk)
            g == GLFFTInitialize(gl, fft, cfg, shaderOk)
        IN /\ surface = "OceanFFT"
           /\ ~gl.destroyed
           /\ r.obj.rngCalls <= MaxRngCalls
           /\ g.next <= MaxGLNames + 1
           /\ fft' = r.obj
           /\ gl' = g
           /\ call' = [obj |-> "OceanFFT", op |-> "Initialize", cfg |-> cfg,
                       shaderOk |-> shaderOk, ret |-> r.ret]
           /\ UNCHANGED <<wt, ocean, cg, surface, grid>>

GL_OceanFFT_Cleanup ==
    /\ surface = "OceanFFT"
    /\ ~gl.destroyed
    /\ fft' = FFTCleanup(fft)
    /\ gl' = GLFFTCleanup(gl)
    /\ call' = [obj |-> "OceanFFT", op |-> "Cleanup"]
    /\ UNCHANGED <<wt, ocean, cg, surface, grid>>

\* ~OceanFFT(): Cleanup()
GL_OceanFFT_Destroy ==
    /\ surface = "OceanFFT"
    /\ ~gl.destroyed
    /\ fft' = FFTCleanup(fft)
    /\ gl' = [GLFFTCleanup(gl) EXCEPT !.destroyed = TRUE]
    /\ call' = [obj |-> "OceanFFT", op |-> "~OceanFFT"]
    /\ UNCHANGED <<wt, ocean, cg, surface, grid>>

GL_Ocean_Initialize ==
    \E cfg \in OceanConfigs, shaderOk \in BOOLEAN :
        LET g == GLOceanInitialize(gl, ocean, cfg, shaderOk)
        IN /\ surface = "Ocean"
           /\ ~gl.destroyed
           /\ g.next <= MaxGLNames + 1
           /\ ocean' = OceanInitialize(ocean, cfg, shaderOk).obj
           /\ gl' = g
           /\ call' = [obj |-> "Ocean", op |-> "Initialize", cfg |-> cfg,
                       shaderOk |-> shaderOk,
                       ret |-> OceanInitialize(ocean, cfg, shaderOk).ret]
           /\ UNCHANGED <<wt, fft, cg, surface, grid>>

GL_Ocean_Cleanup ==
    /\ surface = "Ocean"
    /\ ~gl.destroyed
    /\ ocean' = OceanCleanup(ocean)
    /\ gl' = GLOceanCleanup(gl)
    /\ call' = [obj |-> "Ocean", op |-> "Cleanup"]
    /\ UNCHANGED <<wt, fft, cg, surface, grid>>

\* ~Ocean(): Cleanup()
GL_Ocean_Destroy ==
    /\ surface = "Ocean"
    /\ ~gl.destroyed
    /\ ocean' = OceanCleanup(ocean)
    /\ gl' = [GLOceanCleanup(gl) EXCEPT !.destroyed = TRUE]
    /\ call' = [obj |-> "Ocean", op |-> "~Ocean"]
    /\ UNCHANGED <<wt, fft, cg, surface, grid>>

NextGL ==
    \/ GL_OceanFFT_Initialize
    \/ GL_OceanFFT_Cleanup
    \/ GL_OceanFFT_Destroy
    \/ GL_Ocean_Initialize
    \/ GL_Ocean_Cleanup
    \/ GL_Ocean_Destroy

SpecGL == InitGL /\ [][NextGL]_vars

-----------------------------------------------------------------------------
(* A caller driving a WeatherTransition.                                   *)

\* the longest transition, in half seconds
MaxDuration == 3

InitWeather == Constructed /\ surface = "WeatherTransition"

WeatherTransition_StartTransition ==
    \E from \in CloudConfigs, to \in CloudConfigs, halves \in 1..MaxDuration :
        /\ surface = "WeatherTransition"
        /\ wt' = [wt EXCEPT !.obj = WTStartTransition(wt.obj, from, to,
                                                      halves * (FScale \div 2))]
        /\ call' = [obj |-> "WeatherTransition", op |-> "StartTransition",
                    from |-> from, to |-> to,
                    transitionDuration |-> halves * (FScale \div 2)]
        /\ UNCHANGED <<fft, ocean, cg, surface, grid, gl>>

WeatherTransition_Update ==
    \E deltaTime \in {FScale \div 2, FScale} :
        LET r == WTUpdate(wt.obj, wt.out, deltaTime)
        IN /\ surface = "WeatherTransition"
           /\ wt' = [obj |-> r.obj, out |-> r.out]
           /\ call' = [obj |-> "WeatherTransition", op |-> "Update",
                       deltaTime |-> deltaTime, ret |-> r.ret]
           /\ UNCHANGED <<fft, ocean, cg, surface, grid, gl>>

NextWeather == WeatherTransition_StartTransition \/ WeatherTransition_Update

SpecWeather == InitWeather /\ [][NextWeather]_vars

-----------------------------------------------------------------------------
(* The application's frame loop: LoadAssets once, then Tick per frame.     *)
(* An OceanFFT that SetupOceanFFT never created (a null pointer) is the    *)
(* constructed, uninitialized object: both are skipped by the same tests.  *)

\* frames run
MaxFrames == 2

InitApp == Constructed /\ surface = "App"

\* OceanCGFactory::CreateRoughWaves
CreateRoughWaves == [height |-> 8000, length |-> 60000, speed |-> 6000, time |-> 0]

\* the wave parameters SetupOceanFFT passes: CreateRoughSea with windSpeed
\* (25, 30), windDirection (1, 0.8), lambda -1.2 and A 0.0008
AppRoughSea ==
    [A |-> 8, windSpeed |-> <<25, 30>>, windDirection |-> <<10, 8>>, lambda |-> -12]

\* SetupOceanCG: Initialize, and on success SetWaveParameters(CreateRoughWaves)
SetupOceanCG(s, resolution, size, shaderOk) ==
    LET r == CGInitialize(s, resolution, size, shaderOk)
    IN IF r.ret THEN CGSetWaveParameters(r.obj, CreateRoughWaves) ELSE r.obj

\* SetupOceanFFT: Initialize, and on success SetWaveParameters
SetupOceanFFT(s, cfg, shaderOk) ==
    LET r == FFTInitialize(s, cfg, shaderOk)
    IN IF r.ret THEN FFTSetWaveParameters(r.obj, AppRoughSea) ELSE r.obj

\* the steps of OceanFFT::Update with UpdateSpectrum ahead of the time advance
FFTUpdateSteps_SpectrumFirst(s, deltaTime) ==
    IF ~s.isInitialized THEN <<>>
    ELSE LET t == s.time + deltaTime * s.config.timeScale
         IN <<[step |-> "UpdateSpectrum", currentTime |-> s.time],
              [step |-> "time +=", time |-> t],
              [step |-> "ComputeFFT"]>>

\* the steps OceanFFT::Update(deltaTime) performs, in order
FFTUpdateSteps(s, deltaTime) ==
    IF ~s.isInitialized THEN <<>>
    ELSE LET t == s.time + deltaTime * s.config.timeScale
         IN <<[step |-> "time +=", time |-> t],
              [step |-> "UpdateSpectrum", currentTime |-> t],
              [step |-> "ComputeFFT"]>>

\* UpdateCGSystems(deltaTime): the ocean calls it makes, in order
UpdateCGSystemsSteps(c, f, deltaTime) ==
    (IF c.isInitialized
        THEN <<[step |-> "OceanCG::Update",
                time |-> CGUpdate(c, deltaTime * FScale).waves.time]>>
        ELSE <<>>)
    \o (IF f.isInitialized
           THEN <<[step |-> "OceanFFT::Update"]>> \o FFTUpdateSteps(f, deltaTime)
           ELSE <<>>)

\* OpenGL::Render: the ocean draws it issues, in order, with the time each uses
RenderSteps(c, f) ==
    (IF c.isInitialized
        THEN <<[step |-> "OceanCG::Render", time |-> c.waves.time]>> ELSE <<>>)
    \o (IF f.isInitialized
           THEN <<[step |-> "OceanFFT::Render", time |-> f.time]>> ELSE <<>>)

\* LoadAssets: SetupOceanCG, and SetupOceanFFT when the build enables it
App_LoadAssets ==
    \E resolution \in 0..MaxRes, cgShaderOk \in BOOLEAN, useFFT \in BOOLEAN,
       cfg \in FFTConfigs, fftShaderOk \in BOOLEAN :
        /\ surface = "App"
        /\ call = NoCall
        /\ cg' = SetupOceanCG(cg, resolution, 10, cgShaderOk)
        /\ fft' = IF useFFT THEN SetupOceanFFT(fft, cfg, fftShaderOk) ELSE fft
        /\ call' = [obj |-> "App", op |-> "LoadAssets", frame |-> 0]
        /\ UNCHANGED <<wt, gl, ocean, surface, grid>>

\* Tick: UpdateCGSystems(deltaTime), then Render
App_Tick ==
    \E deltaTime \in {1, 2} :
        /\ surface = "App"
        /\ call.obj = "App"
        /\ call.frame < MaxFrames
        /\ cg' = CGUpdate(cg, deltaTime * FScale)
        /\ fft' = FFTUpdate(fft, deltaTime)
        /\ call' = [obj |-> "App", op |-> "Tick", frame |-> call.frame + 1,
                    deltaTime |-> deltaTime,
                    steps |-> UpdateCGSystemsSteps(cg, fft, deltaTime)
                                 \o RenderSteps(cg', fft')]
        /\ UNCHANGED <<wt, gl, ocean, surface, grid>>

NextApp == App_LoadAssets \/ App_Tick

SpecApp == InitApp /\ [][NextApp]_vars

-----------------------------------------------------------------------------
(* The private functions of the surfaces applied to inputs.                *)

\* wave counts 1..MaxWaves are offered besides those of the presets
MaxWaves == 4

\* wavevectors of the cells around the centre of a grid, (0, 0) among them
PhillipsWaveVectors ==
    {GetWaveVector([N |-> 2, oceanSize |-> 1000], n, m) : n, m \in 0..2}

\* WaveParameters with the damping (units of 1e-4) and gravity (hundredths)
PhillipsParameterSets ==
    [A : {1, 5}, windSpeed : {<<32, 32>>, <<15, 15>>, <<0, 0>>},
     windDirection : {<<10, 10>>, <<10, 0>>, <<0, 0>>}, lambda : {-10},
     damping : {0, 10}, gravity : {981}]

\* the default configuration, the factory presets and a family of others
WaveSetConfigs ==
    {OceanConfigOf([resolution |-> 256, size |-> 1000], w) :
        w \in {OceanDefaultWaves, CreateCalmOcean, CreateRoughSea, CreateStormyOcean,
                CreateTropicalOcean, CreateArcticOcean, SingleWaveOcean, NoWaveOcean}
               \cup [windDirection : {<<10000, 0>>, <<-10000, 10000>>},
                      windSpeed : {25},
                      waveAmplitude : {1000, 20000},
                      waveFrequency : {100, 500},
                      numWaves : 1..MaxWaves]}

Apply_PhillipsSpectrum ==
    \E k \in PhillipsWaveVectors, params \in PhillipsParameterSets :
        /\ call' = [obj |-> "OceanFFT", op |-> "PhillipsSpectrum",
                    k |-> k, params |-> params,
                    ret |-> PhillipsSpectrum(k, params).ret,
                    dividedByK |-> PhillipsSpectrum(k, params).dividedByK]
        /\ UNCHANGED <<wt, gl, fft, ocean, cg, surface, grid>>

Apply_GenerateWaveSet ==
    \E cfg \in WaveSetConfigs :
        /\ call' = [obj |-> "Ocean", op |-> "GenerateWaveSet", cfg |-> cfg,
                    ret |-> GenerateWaveSet(cfg)]
        /\ UNCHANGED <<wt, gl, fft, ocean, cg, surface, grid>>

\* grid sizes the spectrum is generated for
MaxSpectrumN == 4

\* GenerateInitialSpectrum on an object whose generator has already produced
\* rngBefore samples
Apply_GenerateInitialSpectrum ==
    \E N \in 1..MaxSpectrumN, rngBefore \in {0, 5} :
        LET s == [FFTConstructed EXCEPT !.config.N = N, !.rngCalls = rngBefore]
            after == GenerateInitialSpectrum(s)
        IN /\ call' = [obj |-> "OceanFFT", op |-> "GenerateInitialSpectrum",
                       cfg |-> s.config, rngBefore |-> rngBefore,
                       ret |-> after.initialSpectrum, rngCalls |-> after.rngCalls]
           /\ UNCHANGED <<wt, gl, fft, ocean, cg, surface, grid>>

NextFunctions ==
    \/ Apply_PhillipsSpectrum
    \/ Apply_GenerateWaveSet
    \/ Apply_GenerateInitialSpectrum

SpecFunctions == InitGrid /\ [][NextFunctions]_vars

-----------------------------------------------------------------------------
(* Properties.                                                             *)

\* n is a power of two, stated without the bit trick
IsPow2Math(n) == \E k \in 0..30 : n = 2^k

\* the time a sample is evaluated at
SampleTimeOf(c, s) == IF c.currentTime < 0 THEN s.time ELSE c.currentTime

\* C1: OceanFFT::Initialize(cfg) returns failure for every cfg.N that is not a
\* power of two (100, 300, 513, zero and negative values among them) and, when
\* geometry, texture, framebuffer and shader setup succeed, returns success
\* (and leaves the surface initialized) for every power-of-two cfg.N (64, 128,
\* 512 and 1024 among them).
C1_InitializeAcceptsExactlyPowersOfTwo ==
    /\ (call.obj = "OceanFFT" /\ call.op = "Initialize") =>
          /\ ~IsPow2Math(call.cfg.N) => ~call.ret
          /\ (IsPow2Math(call.cfg.N) /\ call.shaderOk) =>
                (call.ret /\ fft.isInitialized /\ fft.config = call.cfg)
    /\ \A n \in {100, 300, 513, 0, -1, -64, -512} : ~IsPowerOfTwo(n)
    /\ \A n \in {64, 128, 512, 1024} : IsPowerOfTwo(n)

C1_Witness ==
    /\ call.obj = "OceanFFT" /\ call.op = "Initialize"
    /\ call.cfg.N = 2 /\ call.shaderOk /\ call.ret
    /\ fft.isInitialized

\* C2: over any sequence of OceanFFT operations, every execution of
\* GenerateInitialSpectrum happens with a stored config.N that is a power of
\* two.
C2_SpectrumOnlyForPowerOfTwoN == fft.genRan => IsPow2Math(fft.genN)

\* C3: when OceanFFT::Initialize(cfg) fails because cfg.N is not a power of
\* two, the stored config, the initialized flag, the mesh and the initial
\* spectrum are the same as before the call.
C3_FailedInitializeKeepsState ==
    [][(call'.obj = "OceanFFT" /\ call'.op = "Initialize"
            /\ ~IsPow2Math(call'.cfg.N)) =>
          /\ fft'.config = fft.config
          /\ fft'.isInitialized = fft.isInitialized
          /\ fft'.vertices = fft.vertices
          /\ fft'.indices = fft.indices
          /\ fft'.initialSpectrum = fft.initialSpectrum]_vars

\* C4: with shader loading succeeding, Ocean::Initialize and
\* OceanCG::Initialize return success exactly when the grid resolution is
\* positive, and failure when it is <= 0.
C4_InitializeFailsOnNonPositiveResolution ==
    (call.obj \in {"Ocean", "OceanCG"} /\ call.op = "Initialize" /\ call.shaderOk) =>
        (call.ret <=> call.cfg.resolution > 0)

\* C5: Ocean::SetConfig with a non-positive resolution or size, and
\* OceanFFT::SetOceanConfig with a non-power-of-two N, leave the stored
\* configuration unchanged.
C5_InvalidReconfigurationRejected ==
    [][/\ (call'.obj = "Ocean" /\ call'.op = "SetConfig"
              /\ (call'.cfg.resolution <= 0 \/ call'.cfg.size <= 0)) =>
             ocean'.config = ocean.config
       /\ (call'.obj = "OceanFFT" /\ call'.op = "SetOceanConfig"
              /\ ~IsPow2Math(call'.cfg.N)) =>
             fft'.config = fft.config]_vars

\* C6: on an initialized OceanFFT the initial spectrum has exactly
\* config.N * config.N entries and the grid mesh is the one CreateGeometry
\* builds for config.N, whatever SetOceanConfig and SetWaveParameters calls
\* came before.
C6_DerivedStateMatchesConfig ==
    fft.isInitialized =>
        /\ Len(fft.initialSpectrum) = fft.config.N * fft.config.N
        /\ fft.vertices = CreateGeometry(fft).vertices
        /\ fft.indices = CreateGeometry(fft).indices

\* 1e-4 is one unit of FScale; the comparison allows ten, which also covers
\* the rounding of the fixed-point evaluation
C7_Tolerance == FScale \div 1000

\* C7: for every configuration and every (x, z, t), the height
\* Ocean::SampleWaveHeight(x, z, t) returns agrees, within the tolerance, with
\* the vertical displacement the vertex stage of the surface's shader program
\* applies to the vertex at rest position (x, z) at time t.
C7_CpuAgreesWithVertexStage ==
    (call.obj = "Ocean" /\ call.op = "SampleWaveHeight" /\ ocean.isInitialized) =>
        Abs(call.ret - VertexStageHeight(ocean.shader, ocean.config, call.x, call.z,
                                         SampleTimeOf(call, ocean)))
            <= C7_Tolerance

\* C8 as stated: every Update(deltaTime) on a Gerstner surface adds deltaTime
\* to the time accumulator, in every state of the surface.
C8_UpdateAddsDeltaInEveryState ==
    [][/\ (call'.obj = "Ocean" /\ call'.op = "Update") =>
             ocean'.time = ocean.time + call'.deltaTime
       /\ (call'.obj = "OceanCG" /\ call'.op = "Update") =>
             cg'.waves.time = cg.waves.time + call'.deltaTime]_vars

\* C8: Update(deltaTime) on an initialized surface adds deltaTime (Ocean) or
\* deltaTime * waves.speed (OceanCG) to the time accumulator, with no clamp;
\* on a surface that is not initialized (before Initialize, after Cleanup) it
\* leaves the accumulator as it was.
C8_UpdateAddsDeltaOnlyWhenInitialized ==
    [][/\ (call'.obj = "Ocean" /\ call'.op = "Update") =>
             ocean'.time = IF ocean.isInitialized
                           THEN ocean.time + call'.deltaTime
                           ELSE ocean.time
       /\ (call'.obj = "OceanCG" /\ call'.op = "Update") =>
             cg'.waves.time = IF cg.isInitialized
                              THEN cg.waves.time
                                     + MulFix(cg.waves.speed, call'.deltaTime)
                              ELSE cg.waves.time]_vars

C8_Witness ==
    /\ call.obj = "Ocean" /\ call.op = "Update"
    /\ ocean.isInitialized
    /\ ocean.time = call.deltaTime

\* C9: Ocean::SetConfig with a configuration that keeps the stored resolution
\* and size stores the new configuration and leaves vertex positions, UVs and
\* the index sequence unchanged; every SampleWaveHeight returns the sum over
\* the wave set derived from the stored (new) configuration.
C9_WaveOnlySetConfigKeepsTopology ==
    [][/\ (call'.obj = "Ocean" /\ call'.op = "SetConfig") =>
             /\ ocean'.config = call'.cfg
             /\ (call'.cfg.resolution = ocean.config.resolution
                     /\ call'.cfg.size = ocean.config.size) =>
                   /\ ocean'.vertices = ocean.vertices
                   /\ ocean'.texCoords = ocean.texCoords
                   /\ ocean'.indices = ocean.indices
       /\ (call'.obj = "Ocean" /\ call'.op = "SampleWaveHeight") =>
             call'.ret = SumHeights(GenerateWaveSet(ocean'.config), call'.x, call'.z,
                                    SampleTimeOf(call', ocean'))]_vars

C9_Witness ==
    /\ call.obj = "Ocean" /\ call.op = "SetConfig" /\ call.wavesOnly
    /\ ocean.isInitialized
    /\ ocean.config.resolution = 1
    /\ Len(ocean.vertices) = 4 /\ Len(ocean.indices) = 6

\* C10: for every resolution R >= 1 the grid built by Ocean::GenerateMesh /
\* GenerateIndices and by OceanCG::CreateOceanGrid has (R+1)^2 vertices and
\* 2*R^2 triangles, i.e. 6*R^2 indices; for R = 4, 25 vertices and 32
\* triangles.
C10_GridCounts ==
    (grid.builder \in {"Ocean", "OceanCG"} /\ grid.R >= 1) =>
        /\ grid.nVertices = (grid.R + 1) * (grid.R + 1)
        /\ Len(grid.indices) = 6 * grid.R * grid.R
        /\ Len(grid.positions) = grid.nVertices
        /\ Len(grid.uvs) = grid.nVertices
        /\ grid.R = 4 => (grid.nVertices = 25 /\ Len(grid.indices) = 3 * 32)

C10_Witness ==
    /\ grid.builder = "OceanCG" /\ grid.R = 4
    /\ grid.nVertices = 25 /\ Len(grid.indices) = 96

\* C11: for R >= 1 the grids of Ocean and OceanCG store vertex (x, z) at
\* position z*(R+1)+x, at (-size/2 + x*size/R, -size/2 + z*size/R) with UV
\* (x/R, z/R), and the index list holds, for the cells in row-major order, the
\* triangles (topLeft, bottomLeft, topRight) and (topRight, bottomLeft,
\* bottomRight).
C11_GridLayout ==
    (grid.builder \in {"Ocean", "OceanCG"} /\ grid.R >= 1) =>
        LET R == grid.R
            stride == R + 1
            half == (grid.size * FScale) \div 2
            step == (grid.size * FScale) \div R
        IN /\ \A z \in 0..R, x \in 0..R :
                 LET v == z * stride + x + 1
                 IN /\ grid.uvs[v] = <<Fin((x * FScale) \div R), Fin((z * FScale) \div R)>>
                    /\ grid.positions[v] = <<Fin(x * step - half), Fin(0), Fin(z * step - half)>>
           /\ \A z \in 0..(R - 1), x \in 0..(R - 1) :
                 LET c == z * R + x
                     topLeft == z * stride + x
                     topRight == topLeft + 1
                     bottomLeft == (z + 1) * stride + x
                     bottomRight == bottomLeft + 1
                 IN SubSeq(grid.indices, 6 * c + 1, 6 * c + 6)
                      = <<topLeft, bottomLeft, topRight, topRight, bottomLeft, bottomRight>>

C11_Witness ==
    /\ grid.builder = "Ocean" /\ grid.R = 2
    /\ SubSeq(grid.indices, 1, 6) = <<0, 3, 1, 1, 3, 4>>
    /\ grid.uvs[9] = <<Fin(FScale), Fin(FScale)>>

\* C12: grid generation is a function of (resolution, size) alone: whatever
\* grids were built before, the vertex, UV and index sequences of an
\* initialized Ocean are those a first build on a new object gives for the
\* same resolution and size.
C12_GridIsFunctionOfResolutionAndSize ==
    ocean.isInitialized =>
        LET fresh == OceanGenerateMesh(
                         [OceanConstructed EXCEPT
                             !.config.resolution = ocean.config.resolution,
                             !.config.size = ocean.config.size])
        IN /\ ocean.vertices = fresh.vertices
           /\ ocean.texCoords = fresh.texCoords
           /\ ocean.indices = fresh.indices

\* a rebuild by SetConfig, after the build Initialize made for another
\* resolution or size (or for the same configuration)
C12_Witness ==
    /\ call.obj = "Ocean" /\ call.op = "SetConfig" /\ ~call.wavesOnly
    /\ ocean.isInitialized
    /\ ocean.config.resolution = 1 /\ Len(ocean.vertices) = 4

\* the grid Ocean::GenerateMesh builds for (resolution, size) on a new object
OceanGridFor(resolution, size) ==
    OceanGenerateMesh([OceanConstructed EXCEPT !.config.resolution = resolution,
                                               !.config.size = size])

\* C13 as stated: for the same resolution value R >= 1, OceanFFT::CreateGeometry
\* (N = R) gives as many vertices, the same UVs and the same index sequence as
\* Ocean::GenerateMesh (resolution = R).
C13_SameLayoutForSameResolutionValue ==
    (grid.builder = "OceanFFT" /\ grid.R >= 1) =>
        LET o == OceanGridFor(grid.R, grid.size)
        IN /\ grid.nVertices = Len(o.vertices)
           /\ grid.uvs = o.texCoords
           /\ grid.indices = o.indices

\* C13: OceanFFT counts vertices per side where Ocean counts cells per side:
\* for N >= 2, OceanFFT::CreateGeometry with N gives the vertex count, the
\* positions, the UVs and the index sequence Ocean::GenerateMesh gives for
\* resolution N - 1 and the same size.
C13_SameLayoutForNEqualsRPlusOne ==
    (grid.builder = "OceanFFT" /\ grid.R >= 2) =>
        LET o == OceanGridFor(grid.R - 1, grid.size)
        IN /\ grid.nVertices = Len(o.vertices)
           /\ grid.positions = o.vertices
           /\ grid.uvs = o.texCoords
           /\ grid.indices = o.indices

C13_Witness ==
    /\ grid.builder = "OceanFFT" /\ grid.R = 4
    /\ grid.nVertices = 16 /\ Len(grid.indices) = 54

\* C14: OceanFFT::PhillipsSpectrum returns exactly 0 (no NaN) for the
\* wavevector (0, 0), for every wind speed, wind direction, A and damping,
\* and does so without dividing by |k|.
C14_PhillipsZeroAtZeroWavevector ==
    (call.op = "PhillipsSpectrum" /\ call.k = <<0, 0>>) =>
        (call.ret = Fin(0) /\ ~call.dividedByK)

C14_Witness ==
    /\ call.op = "PhillipsSpectrum" /\ call.k = <<0, 0>>
    /\ call.params.windDirection = <<0, 0>> /\ call.params.windSpeed = <<0, 0>>
    /\ call.ret = Fin(0)

\* C15: for every wave of a wave set generated with count K >= 1 and positive
\* base frequency and amplitude, steepness * amplitude * K <= 1 / frequency,
\* hence also steepness * amplitude <= 1 / frequency.
C15_SteepnessBound ==
    (call.op = "GenerateWaveSet" /\ call.cfg.numWaves >= 1
        /\ call.cfg.waveFrequency > 0 /\ call.cfg.waveAmplitude > 0) =>
        /\ Len(call.ret) = call.cfg.numWaves
        /\ \A i \in 1..Len(call.ret) :
              LET w == call.ret[i]
              IN /\ MulFix(w.steepness, w.amplitude) * call.cfg.numWaves
                       <= DivFix(FScale, w.frequency)
                 /\ MulFix(w.steepness, w.amplitude) <= DivFix(FScale, w.frequency)

C15_Witness ==
    /\ call.op = "GenerateWaveSet" /\ call.cfg.numWaves = 10
    /\ Len(call.ret) = 10
    /\ call.ret[10].steepness > 0

\* the sampling queries of the two CPU-sampled surfaces
QueryOps ==
    {"SampleHeight", "SampleNormal", "SampleDisplacement",
     "SampleWaveHeight", "SampleWaveNormal"}

\* C16: a sampling query (SampleHeight, SampleNormal, SampleDisplacement of
\* OceanFFT; SampleWaveHeight, SampleWaveNormal of Ocean) leaves every field of
\* every surface object as it was: it is a read-only operation.
C16_SamplingIsReadOnly ==
    [][(call'.op \in QueryOps) =>
            (fft' = fft /\ ocean' = ocean /\ cg' = cg)]_vars

\* a normal was sampled at an explicit time on an initialized Gerstner ocean
\* whose accumulated time differs from that argument
C16_Witness ==
    /\ call.op = "SampleWaveNormal"
    /\ ocean.isInitialized
    /\ call.currentTime >= 0
    /\ ocean.time # call.currentTime

\* the value a query call returns when `t` is passed as its time argument
QueryAt(c, t) ==
    CASE c.op = "SampleHeight" -> FFTSampleHeight(fft, c.x, c.z, t)
      [] c.op = "SampleNormal" -> FFTSampleNormal(fft, c.x, c.z, t)
      [] c.op = "SampleDisplacement" -> FFTSampleDisplacement(fft, c.x, c.z, t)
      [] c.op = "SampleWaveHeight" -> SampleWaveHeight(ocean, c.x, c.z, t)
      [] c.op = "SampleWaveNormal" -> SampleWaveNormal(ocean, c.x, c.z, t)

\* the surface's accumulated simulation time, in the unit of the time arguments
CurrentTimeOf(c) ==
    IF c.obj = "OceanFFT" THEN fft.time * FScale ELSE ocean.time

\* C17: a sampling query called with a negative time argument (the default
\* -1.0) returns what it returns when the surface's current accumulated time
\* is passed explicitly.
C17_DefaultTimeIsCurrentTime ==
    (call.op \in QueryOps /\ call.currentTime < 0) =>
        call.ret = QueryAt(call, CurrentTimeOf(call))

\* C18: with a single wave (numWaves = 1, as in the configuration
\* windDirection = (1, 0), waveAmplitude = 1.0, waveFrequency = 0.02),
\* SampleWaveHeight(0, 0, 0) is amplitude * sin(phase) of the one generated
\* wave: at the origin and t = 0 only the wave's amplitude and phase count.
C18_SingleWaveAtOrigin ==
    (/\ call.op = "SampleWaveHeight"
     /\ call.x = 0 /\ call.z = 0 /\ call.currentTime = 0
     /\ ocean.config.numWaves = 1) =>
        LET wave == GenerateWaveSet(ocean.config)[1]
        IN call.ret = MulFix(wave.amplitude, SinFix(wave.phase))

\* the single-wave ocean of the claim was initialized and probed at the
\* origin at t = 0
C18_Witness ==
    /\ call.op = "SampleWaveHeight"
    /\ call.x = 0 /\ call.z = 0 /\ call.currentTime = 0
    /\ ocean.isInitialized
    /\ ocean.config.numWaves = 1
    /\ ocean.config.windDirection = <<FScale, 0>>
    /\ ocean.config.waveAmplitude = FScale
    /\ ocean.config.waveFrequency = 200

\* C19: for the calm preset the magnitude of SampleWaveHeight(x, z, t) stays
\* below the configured waveAmplitude at every sampled point and time.
C19_CalmHeightBelowAmplitude ==
    (/\ call.op = "SampleWaveHeight"
     /\ OceanConfigOf(ocean.config, ocean.config)
            = OceanConfigOf(ocean.config, CreateCalmOcean)) =>
        Abs(call.ret) < ocean.config.waveAmplitude

\* the wave settings of OceanConfig{} and of the five OceanFactory presets
PresetWaveSettings ==
    {OceanDefaultWaves, CreateCalmOcean, CreateRoughSea, CreateStormyOcean,
     CreateTropicalOcean, CreateArcticOcean}

\* C20: every wave GenerateWaveSet produces for the default configuration and
\* for each preset (calm, rough, stormy, tropical, arctic) has a steepness
\* between 0 and 1.
C20_SteepnessInUnitInterval ==
    (/\ call.op = "GenerateWaveSet"
     /\ \E w \in PresetWaveSettings : call.cfg = OceanConfigOf(call.cfg, w)) =>
        \A i \in 1..Len(call.ret) :
            call.ret[i].steepness >= 0 /\ call.ret[i].steepness <= FScale

\* 1-based position of cell (n, m) = (N/2, N/2) in the row-major spectrum
CentreCell(N) == (N \div 2) * N + N \div 2 + 1

\* C21: after GenerateInitialSpectrum on an N x N grid, N a power of two and
\* at least 2, the spectrum has exactly N*N entries, the cell (N/2, N/2) is
\* 0+0i, and that cell took no random sample: the other cells hold the
\* generator's next N*N - 1 samples in order.
C21_CentreCellIsZero ==
    (/\ call.op = "GenerateInitialSpectrum"
     /\ IsPow2Math(call.cfg.N) /\ call.cfg.N >= 2) =>
        LET N == call.cfg.N
            c == CentreCell(N)
        IN /\ Len(call.ret) = N * N
           /\ call.ret[c] = ComplexZero
           /\ call.rngCalls = call.rngBefore + N * N - 1
           /\ \A i \in (1..(N * N)) \ {c} :
                 /\ ~call.ret[i].zero
                 /\ call.ret[i].sample
                        = call.rngBefore + i - (IF i > c THEN 1 ELSE 0)

\* a 4 x 4 spectrum was generated: its centre cell has cells before and after it
C21_Witness ==
    /\ call.op = "GenerateInitialSpectrum"
    /\ call.cfg.N = 4
    /\ Len(call.ret) = 16

\* C22: with numWaves = 0 the Gerstner evaluation is a defined no-op:
\* GenerateWaveSet returns the empty set (its loop body, the only place that
\* divides by the wave count, runs for no wave) and SampleWaveHeight returns
\* exactly 0 at every point and time.
C22_ZeroWavesIsNoOp ==
    (call.op = "SampleWaveHeight" /\ ocean.config.numWaves = 0) =>
        /\ GenerateWaveSet(ocean.config) = <<>>
        /\ call.ret = 0

\* an initialized ocean with no waves was probed away from the origin at a
\* time other than 0
C22_Witness ==
    /\ call.op = "SampleWaveHeight"
    /\ ocean.isInitialized
    /\ ocean.config.numWaves = 0
    /\ call.x # 0
    /\ SampleTimeOf(call, ocean) > 0

UpdateStepNames ==
    {"OceanCG::Update", "OceanFFT::Update", "time +=", "UpdateSpectrum", "ComputeFFT"}

RenderStepNames == {"OceanCG::Render", "OceanFFT::Render"}

\* the positions of the steps named `name` in a frame
StepsNamed(steps, name) == {i \in 1..Len(steps) : steps[i].step = name}

\* C23: in every frame each initialized ocean's Update runs before the
\* frame's Render; inside OceanFFT::Update the time is advanced first, then
\* UpdateSpectrum is called with the new time, then ComputeFFT; an
\* uninitialized OceanFFT performs none of these steps.
C23_FrameCadence ==
    (call.op = "Tick") =>
        LET steps == call.steps
        IN /\ \A i, j \in 1..Len(steps) :
                 (steps[i].step \in UpdateStepNames
                    /\ steps[j].step \in RenderStepNames) => i < j
           /\ cg.isInitialized =>
                 /\ Cardinality(StepsNamed(steps, "OceanCG::Update")) = 1
                 /\ Cardinality(StepsNamed(steps, "OceanCG::Render")) = 1
           /\ fft.isInitialized =>
                 /\ Cardinality(StepsNamed(steps, "OceanFFT::Render")) = 1
                 /\ \E i \in 1..(Len(steps) - 3) :
                       /\ StepsNamed(steps, "OceanFFT::Update") = {i}
                       /\ StepsNamed(steps, "time +=") = {i + 1}
                       /\ StepsNamed(steps, "UpdateSpectrum") = {i + 2}
                       /\ StepsNamed(steps, "ComputeFFT") = {i + 3}
                       /\ steps[i + 1].time = fft.time
                       /\ steps[i + 2].currentTime = fft.time
           /\ ~fft.isInitialized =>
                 /\ FFTUpdateSteps(fft, call.deltaTime) = <<>>
                 /\ \A i \in 1..Len(steps) :
                       steps[i].step \notin {"OceanFFT::Update", "time +=",
                           "UpdateSpectrum", "ComputeFFT", "OceanFFT::Render"}

\* the second frame of an application whose two oceans are both initialized
C23_Witness ==
    /\ call.op = "Tick"
    /\ call.frame = 2
    /\ cg.isInitialized
    /\ fft.isInitialized
    /\ fft.time > 0

\* the names held in the handle members of the surfaces
HeldNames ==
    {gl.fft[m] : m \in DOMAIN gl.fft} \cup {gl.ocean[m] : m \in DOMAIN gl.ocean}

\* C24: over any sequence of Initialize (succeeding or failing at any step),
\* Cleanup and destruction, no OpenGL object of a surface is deleted twice,
\* none is left without a handle member naming it (overwritten or dropped
\* undeleted), and after destruction none is left alive.
C24_GLObjectsDeletedExactlyOnce ==
    /\ gl.twice = {}
    /\ gl.live \subseteq HeldNames
    /\ gl.destroyed => gl.live = {}

\* C25: whenever Ocean is initialized, the element count Render passes to
\* glDrawElements (indices.size()) equals the number of indices last uploaded
\* to the element buffer, also after SetConfig calls that change the
\* resolution.
C25_DrawCountMatchesElementBuffer ==
    ocean.isInitialized => Len(ocean.indices) = ocean.eboCount

\* C26: only Update changes a surface's time accumulator: every other
\* operation (Initialize, Cleanup, the sampling queries, Ocean::SetConfig,
\* OceanCG::SetWaveParameters, OceanFFT::SetWaveParameters,
\* OceanFFT::SetOceanConfig) leaves it as it was, and no step decreases it.
C26_OnlyUpdateChangesTime ==
    [][/\ (call'.op # "Update") =>
            /\ fft'.time = fft.time
            /\ ocean'.time = ocean.time
            /\ cg'.waves.time = cg.waves.time
       /\ fft'.time >= fft.time
       /\ ocean'.time >= ocean.time
       /\ cg'.waves.time >= cg.waves.time]_vars

\* C27: regenerating the initial spectrum with the WaveParameters and
\* OceanConfig it was generated with (SetWaveParameters called with the value
\* already in force) reproduces the same initialSpectrum contents.
C27_RegenerationIsDeterministic ==
    [][(/\ fft.isInitialized
        /\ call.obj = "OceanFFT"
        /\ call.op \in {"Initialize", "SetWaveParameters"}
        /\ call'.op = "SetWaveParameters"
        /\ call'.params = fft.waveParams) =>
            fft'.initialSpectrum = fft.initialSpectrum]_vars

\* a = -b up to one unit of the fixed-point rounding
IsNegationOf(a, b) == Abs(a[1] + b[1]) <= 1 /\ Abs(a[2] + b[2]) <= 1

\* C28: the wavevector grid of a generated spectrum is closed under negation:
\* for every cell (n, m) of the N x N grid there is a cell (n', m') of the
\* grid with GetWaveVector(n', m') = -GetWaveVector(n, m).
C28_WaveVectorGridClosedUnderNegation ==
    (call.op = "GenerateInitialSpectrum" /\ IsPow2Math(call.cfg.N)) =>
        LET N == call.cfg.N
        IN \A n, m \in 0..(N - 1) : \E n2, m2 \in 0..(N - 1) :
              IsNegationOf(GetWaveVector(call.cfg, n2, m2),
                           GetWaveVector(call.cfg, n, m))

\* C29: every index a grid builder emits names an existing vertex: for
\* R >= 1 the indices of Ocean and OceanCG lie in [0, (R+1)^2), and for
\* N >= 2 those of OceanFFT::CreateGeometry lie in [0, N^2).
C29_IndicesInRange ==
    /\ (grid.builder \in {"Ocean", "OceanCG"} /\ grid.R >= 1) =>
          /\ grid.nVertices = (grid.R + 1) * (grid.R + 1)
          /\ \A i \in 1..Len(grid.indices) :
                grid.indices[i] >= 0 /\ grid.indices[i] < (grid.R + 1) * (grid.R + 1)
    /\ (grid.builder = "OceanFFT" /\ grid.R >= 2) =>
          /\ grid.nVertices = grid.R * grid.R
          /\ \A i \in 1..Len(grid.indices) :
                grid.indices[i] >= 0 /\ grid.indices[i] < grid.R * grid.R

\* a 3 x 3 spectral grid was built and its last index names the last vertex
C29_Witness ==
    /\ grid.builder = "OceanFFT" /\ grid.R = 3
    /\ Len(grid.indices) = 24
    /\ grid.indices[24] = 8

\* C30: an Update of a transition started with a positive duration d and
\* driven with positive delta times adds the delta to the accumulated time
\* and returns true, staying active, while that time is below d; the Update
\* on which the time reaches d returns false, makes the transition inactive
\* and sets the output config equal to `to`; every later Update returns
\* false and changes neither the output config nor the accumulated time.
C30_TransitionRunsToCompletion ==
    [][(call'.obj = "WeatherTransition" /\ call'.op = "Update") =>
        IF wt.obj.isActive
            THEN /\ wt'.obj.currentTime = wt.obj.currentTime + call'.deltaTime
                 /\ IF wt'.obj.currentTime < wt.obj.duration
                        THEN call'.ret /\ wt'.obj.isActive
                        ELSE /\ ~call'.ret
                             /\ ~wt'.obj.isActive
                             /\ wt'.out = wt.obj.targetConfig
            ELSE /\ ~call'.ret
                 /\ wt' = wt]_vars

\* a transition between two different configs has just completed with the
\* accumulated time exactly at its duration
C30_Witness ==
    /\ call.obj = "WeatherTransition" /\ call.op = "Update"
    /\ ~call.ret
    /\ ~wt.obj.isActive
    /\ wt.obj.duration > 0
    /\ wt.obj.currentTime = wt.obj.duration
    /\ wt.obj.startConfig # wt.obj.targetConfig
    /\ wt.out = wt.obj.targetConfig

====
